---- MODULE Spec2Model ----
(***************************************************************************)
(* StockAgent: the tool-call session of src/StockAgent.py together with    *)
(* the calculation service of src/server.py.                               *)
(*                                                                         *)
(* Python floats are modelled as exact rationals <<n, d>> in lowest terms  *)
(* with d > 0; None is the empty tuple.  A Python dict is a record, a      *)
(* Python str that the code scans is a tuple of one-character strings.     *)
(***************************************************************************)
EXTENDS Integers, Sequences, FiniteSets, TLC

(***************************************************************************)
(* Bounds of the model.                                                    *)
(***************************************************************************)
\* most tool calls in one model response
MaxCalls == 2
\* largest model response: its tool calls plus the search queries they carry
MaxSize == 8

(***************************************************************************)
(* Numbers.                                                                *)
(***************************************************************************)
None == <<>>

Abs(n) == IF n < 0 THEN -n ELSE n

RECURSIVE Gcd(_, _)
Gcd(a, b) == IF b = 0 THEN a ELSE Gcd(b, a % b)

\* the rational n/d in lowest terms, d # 0
Rat(n, d) ==
    LET g == Gcd(Abs(n), Abs(d))
        s == IF d < 0 THEN -1 ELSE 1
    IN  <<(s * n) \div g, (s * d) \div g>>

RatAdd(x, y) == Rat(x[1] * y[2] + y[1] * x[2], x[2] * y[2])
RatSub(x, y) == Rat(x[1] * y[2] - y[1] * x[2], x[2] * y[2])
RatMul(x, y) == Rat(x[1] * y[1], x[2] * y[2])
\* y # 0
RatDiv(x, y) == Rat(x[1] * y[2], x[2] * y[1])
RatGt(x, y) == x[1] * y[2] > y[1] * x[2]
RatAbs(x) == <<Abs(x[1]), x[2]>>
IsZero(x) == x[1] = 0

\* the literal 100 of the percentage formulas
Percent == 100

\* bool(v) of a value that is None or a float
Truthy(v) == v # None /\ ~IsZero(v)

(***************************************************************************)
(* Text: re.findall(r"\$([0-9]+(?:\.[0-9]{1,2})?)", full_text)             *)
(***************************************************************************)
Digits == {"0", "1", "2", "3", "4", "5", "6", "7", "8", "9"}

DigitVal(c) ==
    CASE c = "0" -> 0 [] c = "1" -> 1 [] c = "2" -> 2 [] c = "3" -> 3
      [] c = "4" -> 4 [] c = "5" -> 5 [] c = "6" -> 6 [] c = "7" -> 7
      [] c = "8" -> 8 [] c = "9" -> 9

IsDigitAt(s, i) == i >= 1 /\ i <= Len(s) /\ s[i] \in Digits

\* the last index of the maximal run of digits of s that starts at i
RECURSIVE DigitRunEnd(_, _)
DigitRunEnd(s, i) == IF IsDigitAt(s, i + 1) THEN DigitRunEnd(s, i + 1) ELSE i

\* the number written by the digits s[i..j]
RECURSIVE IntOf(_, _, _)
IntOf(s, i, j) == IF j < i THEN 0 ELSE 10 * IntOf(s, i, j - 1) + DigitVal(s[j])

RECURSIVE Pow10(_)
Pow10(k) == IF k = 0 THEN 1 ELSE 10 * Pow10(k - 1)

\* a match of \$[0-9]+ starts at i
MatchAt(s, i) == i >= 1 /\ i <= Len(s) /\ s[i] = "$" /\ IsDigitAt(s, i + 1)

\* float(group 1) of the match that starts at i: the digits, then the optional
\* group of a point and one or two digits
MatchValue(s, i) ==
    LET e == DigitRunEnd(s, i + 1)
        whole == IntOf(s, i + 1, e)
        hasFrac == e + 1 <= Len(s) /\ s[e + 1] = "." /\ IsDigitAt(s, e + 2)
        f == IF IsDigitAt(s, e + 3) THEN e + 3 ELSE e + 2
    IN  IF hasFrac
        THEN Rat(whole * Pow10(f - e - 1) + IntOf(s, e + 2, f), Pow10(f - e - 1))
        ELSE Rat(whole, 1)

\* the start indexes of the matches findall can report first
FirstMatch(s) ==
    LET starts == {i \in 1..Len(s) : MatchAt(s, i)}
    IN  IF starts = {} THEN 0
        ELSE CHOOSE i \in starts : \A j \in starts : i <= j

\* "".join(texts): the snippets run together without a separator
RECURSIVE JoinPlain(_)
JoinPlain(texts) ==
    IF texts = <<>> THEN <<>> ELSE texts[1] \o JoinPlain(Tail(texts))

\* " ".join(texts)
RECURSIVE Join(_)
Join(texts) ==
    IF texts = <<>> THEN <<>>
    ELSE IF Len(texts) = 1 THEN texts[1]
    ELSE texts[1] \o <<" ">> \o Join(Tail(texts))

\* the snippets of the entries that have one, in order
RECURSIVE Snippets(_)
Snippets(entries) ==
    IF entries = <<>> THEN <<>>
    ELSE (IF "snippet" \in DOMAIN Head(entries)
          THEN <<Head(entries).snippet>> ELSE <<>>) \o Snippets(Tail(entries))

extract_price_or_dividend(result_json) ==
    LET organic == IF "organic_results" \in DOMAIN result_json
                   THEN result_json.organic_results ELSE <<>>
        full_text == Join(Snippets(organic))
        m == FirstMatch(full_text)
    IN  IF m # 0 THEN MatchValue(full_text, m) ELSE None

(***************************************************************************)
(* The calculation service (src/server.py).  A response is                 *)
(* [status, body]; FastAPI answers 422 when the body does not validate and *)
(* 500 when the handler raises.                                            *)
(***************************************************************************)
\* pydantic: every float field is there and is a number
Validates(data, fields) == \A f \in fields : f \in DOMAIN data /\ data[f] # None

Reply(body) == [status |-> 200, body |-> body]
Refusal(code) == [status |-> code, body |-> [detail |-> "error"]]

\* calc_price_return that divides by the final price
calc_price_return_by_final(data) ==
    IF ~Validates(data, {"initial_price", "final_price"}) THEN Refusal(422)
    ELSE IF IsZero(data.final_price) THEN Refusal(500)
    ELSE Reply([price_return |->
            RatMul(RatDiv(RatSub(data.final_price, data.initial_price),
                          data.final_price), Rat(Percent, 1))])

calc_price_return(data) ==
    IF ~Validates(data, {"initial_price", "final_price"}) THEN Refusal(422)
    ELSE IF IsZero(data.initial_price) THEN Refusal(500)
    ELSE Reply([price_return |->
            RatMul(RatDiv(RatSub(data.final_price, data.initial_price),
                          data.initial_price), Rat(Percent, 1))])

calc_dividend_yield(data) ==
    IF ~Validates(data, {"dividend_total", "initial_price"}) THEN Refusal(422)
    ELSE IF IsZero(data.initial_price) THEN Refusal(500)
    ELSE Reply([dividend_yield |->
            RatMul(RatDiv(data.dividend_total, data.initial_price), Rat(Percent, 1))])

calc_total_return(data) ==
    IF ~Validates(data, {"price_return", "dividend_yield"}) THEN Refusal(422)
    ELSE Reply([total_return |-> RatAdd(data.price_return, data.dividend_yield)])

\* format(x, ".2f"): x rounded to hundredths, halves to even
Round2(x) ==
    LET n == x[1] * 100
        q == n \div x[2]
        r == n % x[2]
        up == 2 * r > x[2] \/ (2 * r = x[2] /\ q % 2 = 1)
    IN  Rat(IF up THEN q + 1 ELSE q, 100)

\* the f-string of compare, by its fields
Summary(winner, diff, data) ==
    [winner |-> winner, outperformed_by |-> Round2(RatAbs(diff)),
     a_name |-> data.stock_a_name, a_return |-> Round2(data.stock_a_return),
     b_name |-> data.stock_b_name, b_return |-> Round2(data.stock_b_return)]

\* compare that names its first operand whatever the returns
CompareWinnerFirst(data) == data.stock_a_name

\* compare with diff >= 0 in place of diff > 0
CompareWinnerTieFirst(data) ==
    LET diff == RatSub(data.stock_a_return, data.stock_b_return)
    IN  IF ~RatGt(Rat(0, 1), diff) THEN data.stock_a_name ELSE data.stock_b_name

\* line 66-67
CompareWinner(data) ==
    LET diff == RatSub(data.stock_a_return, data.stock_b_return)
    IN  IF RatGt(diff, Rat(0, 1)) THEN data.stock_a_name ELSE data.stock_b_name

compare(data) ==
    IF ~(Validates(data, {"stock_a_return", "stock_b_return"})
         /\ {"stock_a_name", "stock_b_name"} \subseteq DOMAIN data)
    THEN Refusal(422)
    ELSE LET diff == RatSub(data.stock_a_return, data.stock_b_return)
             winner == CompareWinner(data)
         IN  Reply([summary |-> Summary(winner, diff, data)])

\* the routes of the FastAPI app the agent posts to
Server(endpoint, data) ==
    CASE endpoint = "price-return" -> calc_price_return(data)
      [] endpoint = "dividend-yield" -> calc_dividend_yield(data)
      [] endpoint = "total-return" -> calc_total_return(data)
      [] endpoint = "compare" -> compare(data)

(***************************************************************************)
(* The agent's helpers (src/StockAgent.py).  `net` is what the network     *)
(* does to one request: "up" delivers it, "down" is a connection error or  *)
(* a timeout.                                                              *)
(***************************************************************************)
Net == {"up", "down"}

\* post_to_mcp without raise_for_status: the body of any answer is returned
post_to_mcp_unchecked(endpoint, data, net) ==
    IF net = "down" THEN [error |-> "ConnectionError"]
    ELSE Server(endpoint, data).body

\* requests.post, raise_for_status and res.json(), or the except branch
post_to_mcp(endpoint, data, net) ==
    IF net = "down" THEN [error |-> "ConnectionError"]
    ELSE LET res == Server(endpoint, data)
         IN  IF res.status # 200 THEN [error |-> "HTTPError"] ELSE res.body

\* the text of a snippet that quotes the amount `digits`
Quote(digits) == <<"a", "t", " ", "$">> \o digits

\* a body whose only amount is $0
ZeroPayload == [organic_results |-> <<[snippet |-> Quote(<<"0">>)]>>]

\* the body the search provider has for question q: the six questions of the
\* prompt in its order, then any other question
ValuePayload(q) ==
    CASE q = 1 -> [organic_results |-> <<[snippet |-> Quote(<<"1", "0", "0">>)]>>]
      [] q = 2 -> [organic_results |-> <<[title |-> <<"a">>],
                                         [snippet |-> Quote(<<"1", "2", "0">>)]>>]
      [] q = 3 -> [organic_results |-> <<[snippet |-> Quote(<<"2", "0", "0", ".", "0">>)]>>]
      [] q = 4 -> [organic_results |-> <<[snippet |-> Quote(<<"2", "1", "0">>)],
                                         [snippet |-> Quote(<<"9">>)]>>]
      [] q = 5 -> [organic_results |-> <<[snippet |-> <<"$", " ">> \o Quote(<<"2">>)]>>]
      [] q = 6 -> [organic_results |-> <<[snippet |-> Quote(<<"3", ".", "0", "0", "1">>)]>>]
      [] OTHER -> [organic_results |-> <<[snippet |-> Quote(<<"5", ".", "5">>)]>>]

\* the questions the provider may also answer with a $0 body
ZeroQueries == {1, 3, 5, 6}

ProviderPayloads(q) ==
    {ValuePayload(q)} \cup (IF q \in ZeroQueries THEN {ZeroPayload} ELSE {})

\* what one search request meets: no response, or a 200 with a body
SearchNet(q) ==
    {[status |-> 0]} \cup {[status |-> 200, body |-> p] : p \in ProviderPayloads(q)}

\* what the requests of one search call meet, request by request
RECURSIVE SearchNets(_)
SearchNets(query) ==
    IF query = <<>> THEN {<<>>}
    ELSE {<<h>> \o t : h \in SearchNet(Head(query)), t \in SearchNets(Tail(query))}

\* a search that answers a failed request with a payload it holds for q
serpapi_search_stale(q, net) ==
    IF net.status # 200 THEN ValuePayload(q) ELSE net.body

\* requests.get, raise_for_status and resp.json(), or the except branch
serpapi_search(q, net) ==
    IF net.status # 200 THEN [error |-> "ConnectionError"] ELSE net.body

\* the keys of the dispatch table
ToolNames == {"search_stock_data", "calculate_price_return",
              "calculate_dividend_yield", "calculate_total_return",
              "compare_returns"}

Endpoint(name) ==
    CASE name = "calculate_price_return" -> "price-return"
      [] name = "calculate_dividend_yield" -> "dividend-yield"
      [] name = "calculate_total_return" -> "total-return"
      [] name = "compare_returns" -> "compare"

\* dispatch[name] raises KeyError
HandlerRaises(name) == name \notin ToolNames

\* tool_handler whose search branch walks the query list from its end
tool_handler_reversed(name, arguments, nets) ==
    IF name = "search_stock_data"
    THEN [i \in 1..Len(arguments.query) |->
            serpapi_search(arguments.query[Len(arguments.query) + 1 - i],
                           nets[Len(arguments.query) + 1 - i])]
    ELSE post_to_mcp(Endpoint(name), arguments, nets[1])

\* dispatch[name](arguments) for a name of the table; nets is the network's
\* answer to each request the handler makes, in order
tool_handler(name, arguments, nets) ==
    IF name = "search_stock_data"
    THEN [i \in 1..Len(arguments.query) |-> serpapi_search(arguments.query[i], nets[i])]
    ELSE post_to_mcp(Endpoint(name), arguments, nets[1])

(***************************************************************************)
(* The model exchange: what litellm.completion can answer.                 *)
(* c.function.arguments is JSON text: [valid, value], value being what     *)
(* json.loads returns for it.                                              *)
(***************************************************************************)
JsonText(obj) == [valid |-> TRUE, value |-> obj]
BadJson == [valid |-> FALSE]

ToolCall(name, arguments) == [name |-> name, arguments |-> arguments]

\* a search call that asks n queries; query i stands for the i-th question
SearchCall(n) == ToolCall("search_stock_data", JsonText([query |-> [i \in 1..n |-> i]]))

ArithmeticCalls ==
    { ToolCall("calculate_price_return",
               JsonText([initial_price |-> Rat(0, 1), final_price |-> Rat(120, 1)])),
      ToolCall("calculate_dividend_yield",
               JsonText([dividend_total |-> Rat(2, 1), initial_price |-> Rat(100, 1)])),
      ToolCall("calculate_total_return",
               JsonText([price_return |-> Rat(20, 1), dividend_yield |-> Rat(2, 1)])),
      ToolCall("compare_returns",
               JsonText([stock_a_name |-> "AAPL", stock_a_return |-> Rat(22, 1),
                         stock_b_name |-> "MSFT", stock_b_return |-> Rat(13, 2)])) }

\* a call of a tool the table does not have, and a call whose arguments do not parse
OtherCalls ==
    { ToolCall("get_stock_price", JsonText([ticker |-> "AAPL"])),
      ToolCall("search_stock_data", BadJson) }

ProposedCalls ==
    {SearchCall(n) : n \in 0..MaxSize} \cup ArithmeticCalls \cup OtherCalls

QueryCount(c) ==
    IF c.name = "search_stock_data" /\ c.arguments.valid
    THEN Len(c.arguments.value.query) ELSE 0

RECURSIVE Size(_)
Size(cs) == IF cs = <<>> THEN 0 ELSE 1 + QueryCount(Head(cs)) + Size(Tail(cs))

\* response.choices[0].message.tool_calls or []
ModelResponses ==
    {cs \in UNION {[1..n -> ProposedCalls] : n \in 0..MaxCalls} :
        Size(cs) <= MaxSize}

(***************************************************************************)
(* The session (module body of src/StockAgent.py, lines 183-265).          *)
(***************************************************************************)
VARIABLES
    pc,                 \* the statement the script is at
    calls,              \* calls
    idx,                \* how many calls the loop has dispatched
    result,             \* result of the last loop iteration
    slots,              \* aapl_init, aapl_final, msft_init, msft_final, aapl_div, msft_div
    aapl_price_ret, aapl_div_yield, aapl_total_return,
    msft_price_ret, msft_div_yield, msft_total_return,
    comparison_result,
    outcome,            \* how the script ended
    exc,                \* the uncaught exception, if any
    mcp_log,            \* the requests made to the calculation service, in order
    search_log          \* the requests made to the search provider, in order

chain == <<aapl_price_ret, aapl_div_yield, aapl_total_return,
           msft_price_ret, msft_div_yield, msft_total_return, comparison_result>>
loop == <<calls, idx, result, slots>>
vars == <<pc, loop, chain, outcome, exc, mcp_log, search_log>>

NoException == [type |-> "none", line |-> 0]
Exception(type, line) == [type |-> type, line |-> line]
Unbound == [unbound |-> TRUE]

\* line 198-199
EmptySlots ==
    [aapl_init |-> None, aapl_final |-> None, msft_init |-> None,
     msft_final |-> None, aapl_div |-> None, msft_div |-> None]

Init ==
    /\ pc = "completion"
    /\ calls = <<>>
    /\ idx = 0
    /\ result = <<>>
    /\ slots = EmptySlots
    /\ aapl_price_ret = None /\ aapl_div_yield = None /\ aapl_total_return = None
    /\ msft_price_ret = None /\ msft_div_yield = None /\ msft_total_return = None
    /\ comparison_result = Unbound
    /\ outcome = "running"
    /\ exc = NoException
    /\ mcp_log = <<>>
    /\ search_log = <<>>

\* the script ends with an uncaught exception
Uncaught(type, line) ==
    /\ pc' = "exited"
    /\ outcome' = "uncaught"
    /\ exc' = Exception(type, line)

\* the script without the `if not calls` branch: the loop runs over no calls
CompletionNoBranch ==
    /\ pc = "completion"
    /\ \E cs \in ModelResponses :
        /\ calls' = cs
        /\ pc' = IF cs = <<>> THEN "gate" ELSE "loop"
    /\ UNCHANGED <<idx, result, slots, chain, outcome, exc, mcp_log, search_log>>

\* lines 183-199: the model answers; no calls is the end
Completion ==
    /\ pc = "completion"
    /\ \E cs \in ModelResponses :
        /\ calls' = cs
        /\ IF cs = <<>>
           THEN pc' = "exited" /\ outcome' = "no_tool_calls"
           ELSE pc' = "loop" /\ outcome' = outcome
    /\ UNCHANGED <<idx, result, slots, chain, exc, mcp_log, search_log>>

\* the slot assignment with a closing else in place of elif i == 5
AssignElse(s, i, val) ==
    CASE i = 0 -> [s EXCEPT !.aapl_init = val]
      [] i = 1 -> [s EXCEPT !.aapl_final = val]
      [] i = 2 -> [s EXCEPT !.msft_init = val]
      [] i = 3 -> [s EXCEPT !.msft_final = val]
      [] i = 4 -> [s EXCEPT !.aapl_div = val]
      [] OTHER -> [s EXCEPT !.msft_div = val]

\* lines 212-217: the slot that item i of a search result is bound to
\* an assignment that keeps a slot's value when nothing was extracted
AssignKeepFilled(s, i, val) ==
    IF val = None THEN s
    ELSE CASE i = 0 -> [s EXCEPT !.aapl_init = val]
           [] i = 1 -> [s EXCEPT !.aapl_final = val]
           [] i = 2 -> [s EXCEPT !.msft_init = val]
           [] i = 3 -> [s EXCEPT !.msft_final = val]
           [] i = 4 -> [s EXCEPT !.aapl_div = val]
           [] i = 5 -> [s EXCEPT !.msft_div = val]
           [] OTHER -> s

Assign(s, i, val) ==
    CASE i = 0 -> [s EXCEPT !.aapl_init = val]
      [] i = 1 -> [s EXCEPT !.aapl_final = val]
      [] i = 2 -> [s EXCEPT !.msft_init = val]
      [] i = 3 -> [s EXCEPT !.msft_final = val]
      [] i = 4 -> [s EXCEPT !.aapl_div = val]
      [] i = 5 -> [s EXCEPT !.msft_div = val]
      [] OTHER -> s

\* lines 209-217: for i, item in enumerate(result), from item i on
RECURSIVE AssignFrom(_, _, _)
AssignFrom(s, res, i) ==
    IF i >= Len(res) THEN s
    ELSE AssignFrom(Assign(s, i, extract_price_or_dividend(res[i + 1])), res, i + 1)

\* the wire, as the calculation service and the network saw one request
McpEntry(by, endpoint, data, net, response) ==
    [by |-> by, endpoint |-> endpoint, data |-> data, net |-> net,
     status |-> IF net = "up" THEN Server(endpoint, data).status ELSE 0,
     response |-> response]

SearchEntries(query, nets, res) ==
    [i \in 1..Len(query) |-> [query |-> query[i], net |-> nets[i], response |-> res[i]]]

\* where the loop goes after an iteration
AfterIteration == IF idx + 1 < Len(calls) THEN "loop" ELSE "gate"

\* lines 201-217: one iteration of the loop over calls
DispatchCall ==
    /\ pc = "loop"
    /\ LET c == calls[idx + 1]
           t_name == c.name
       IN  IF ~c.arguments.valid
           THEN /\ Uncaught("JSONDecodeError", 203)
                /\ UNCHANGED <<loop, chain, mcp_log, search_log>>
           ELSE IF HandlerRaises(t_name)
           THEN /\ Uncaught("KeyError", 137)
                /\ UNCHANGED <<loop, chain, mcp_log, search_log>>
           ELSE LET t_args == c.arguments.value
                IN  /\ idx' = idx + 1
                    /\ pc' = AfterIteration
                    /\ IF t_name = "search_stock_data"
                       THEN \E nets \in SearchNets(t_args.query) :
                              /\ result' = tool_handler(t_name, t_args, nets)
                              /\ slots' = AssignFrom(slots, result', 0)
                              /\ search_log' = search_log \o
                                    SearchEntries(t_args.query, nets, result')
                              /\ UNCHANGED mcp_log
                       ELSE \E net \in Net :
                              /\ result' = tool_handler(t_name, t_args, <<net>>)
                              /\ mcp_log' = Append(mcp_log,
                                    McpEntry("loop", Endpoint(t_name), t_args, net, result'))
                              /\ UNCHANGED <<slots, search_log>>
                    /\ UNCHANGED <<calls, chain, outcome, exc>>

\* line 219
Required == <<slots.aapl_init, slots.aapl_final, slots.msft_init,
              slots.msft_final, slots.aapl_div, slots.msft_div>>

\* any(required) in place of all(required)
AnyRequired == \E k \in 1..Len(Required) : Truthy(Required[k])

\* all(required)
AllRequired == \A k \in 1..Len(Required) : Truthy(Required[k])

\* lines 219-222
Gate ==
    /\ pc = "gate"
    /\ IF ~AllRequired
       THEN pc' = "exited" /\ outcome' = "missing_data"
       ELSE pc' = "L224" /\ outcome' = outcome
    /\ UNCHANGED <<loop, chain, exc, mcp_log, search_log>>

(***************************************************************************)
(* The calculation chain, lines 224-259.  Every step posts one request and *)
(* subscripts the answer; an answer without the key is a KeyError.         *)
(***************************************************************************)
\* lines 224-227
AaplPriceArgs == [initial_price |-> slots.aapl_init, final_price |-> slots.aapl_final]
\* lines 229-232
AaplDividendArgs == [dividend_total |-> slots.aapl_div, initial_price |-> slots.aapl_init]
\* lines 234-237
AaplTotalArgs == [price_return |-> aapl_price_ret, dividend_yield |-> aapl_div_yield]
\* lines 239-242
MsftPriceArgs == [initial_price |-> slots.msft_init, final_price |-> slots.msft_final]
\* lines 244-247
MsftDividendArgs == [dividend_total |-> slots.msft_div, initial_price |-> slots.msft_init]
\* lines 249-252 copied from 234-237 with one name left unchanged
MsftTotalArgsCopied == [price_return |-> aapl_price_ret, dividend_yield |-> msft_div_yield]
\* lines 249-252 taking the yield from the loop's last result when the model
\* proposed a dividend-yield call last
MsftTotalArgsFromResult ==
    [price_return |-> msft_price_ret,
     dividend_yield |->
        IF /\ calls[Len(calls)].name = "calculate_dividend_yield"
           /\ "dividend_yield" \in DOMAIN result
        THEN result.dividend_yield ELSE msft_div_yield]
\* lines 249-252
MsftTotalArgs == [price_return |-> msft_price_ret, dividend_yield |-> msft_div_yield]
\* lines 254-259
CompareArgs ==
    [stock_a_name |-> "AAPL", stock_a_return |-> aapl_total_return,
     stock_b_name |-> "MSFT", stock_b_return |-> msft_total_return]

\* a chain request that is posted a second time when the first post fails
ChainRequestRetry(name, arguments, net, r) ==
    /\ r = tool_handler(name, arguments, <<net>>)
    /\ mcp_log' =
        LET e == McpEntry("chain", Endpoint(name), arguments, net, r)
        IN  IF net = "down" THEN mcp_log \o <<e, e>> ELSE Append(mcp_log, e)

\* the chain's request: the answer r to tool_handler(name, arguments), logged
ChainRequest(name, arguments, net, r) ==
    /\ r = tool_handler(name, arguments, <<net>>)
    /\ mcp_log' = Append(mcp_log, McpEntry("chain", Endpoint(name), arguments, net, r))

AaplPriceReturn ==
    /\ pc = "L224"
    /\ \E net \in Net : \E r \in {tool_handler("calculate_price_return", AaplPriceArgs, <<net>>)} :
        /\ ChainRequest("calculate_price_return", AaplPriceArgs, net, r)
        /\ IF "price_return" \in DOMAIN r
           THEN /\ aapl_price_ret' = r.price_return
                /\ pc' = "L229"
                /\ UNCHANGED <<outcome, exc>>
           ELSE /\ Uncaught("KeyError", 227)
                /\ UNCHANGED aapl_price_ret
    /\ UNCHANGED <<loop, aapl_div_yield, aapl_total_return, msft_price_ret,
                   msft_div_yield, msft_total_return, comparison_result, search_log>>

AaplDividendYield ==
    /\ pc = "L229"
    /\ \E net \in Net : \E r \in {tool_handler("calculate_dividend_yield", AaplDividendArgs, <<net>>)} :
        /\ ChainRequest("calculate_dividend_yield", AaplDividendArgs, net, r)
        /\ IF "dividend_yield" \in DOMAIN r
           THEN /\ aapl_div_yield' = r.dividend_yield
                /\ pc' = "L234"
                /\ UNCHANGED <<outcome, exc>>
           ELSE /\ Uncaught("KeyError", 232)
                /\ UNCHANGED aapl_div_yield
    /\ UNCHANGED <<loop, aapl_price_ret, aapl_total_return, msft_price_ret,
                   msft_div_yield, msft_total_return, comparison_result, search_log>>

AaplTotalReturn ==
    /\ pc = "L234"
    /\ \E net \in Net : \E r \in {tool_handler("calculate_total_return", AaplTotalArgs, <<net>>)} :
        /\ ChainRequest("calculate_total_return", AaplTotalArgs, net, r)
        /\ IF "total_return" \in DOMAIN r
           THEN /\ aapl_total_return' = r.total_return
                /\ pc' = "L239"
                /\ UNCHANGED <<outcome, exc>>
           ELSE /\ Uncaught("KeyError", 237)
                /\ UNCHANGED aapl_total_return
    /\ UNCHANGED <<loop, aapl_price_ret, aapl_div_yield, msft_price_ret,
                   msft_div_yield, msft_total_return, comparison_result, search_log>>

MsftPriceReturn ==
    /\ pc = "L239"
    /\ \E net \in Net : \E r \in {tool_handler("calculate_price_return", MsftPriceArgs, <<net>>)} :
        /\ ChainRequest("calculate_price_return", MsftPriceArgs, net, r)
        /\ IF "price_return" \in DOMAIN r
           THEN /\ msft_price_ret' = r.price_return
                /\ pc' = "L244"
                /\ UNCHANGED <<outcome, exc>>
           ELSE /\ Uncaught("KeyError", 242)
                /\ UNCHANGED msft_price_ret
    /\ UNCHANGED <<loop, aapl_price_ret, aapl_div_yield, aapl_total_return,
                   msft_div_yield, msft_total_return, comparison_result, search_log>>

MsftDividendYield ==
    /\ pc = "L244"
    /\ \E net \in Net : \E r \in {tool_handler("calculate_dividend_yield", MsftDividendArgs, <<net>>)} :
        /\ ChainRequest("calculate_dividend_yield", MsftDividendArgs, net, r)
        /\ IF "dividend_yield" \in DOMAIN r
           THEN /\ msft_div_yield' = r.dividend_yield
                /\ pc' = "L249"
                /\ UNCHANGED <<outcome, exc>>
           ELSE /\ Uncaught("KeyError", 247)
                /\ UNCHANGED msft_div_yield
    /\ UNCHANGED <<loop, aapl_price_ret, aapl_div_yield, aapl_total_return,
                   msft_price_ret, msft_total_return, comparison_result, search_log>>

MsftTotalReturn ==
    /\ pc = "L249"
    /\ \E net \in Net : \E r \in {tool_handler("calculate_total_return", MsftTotalArgs, <<net>>)} :
        /\ ChainRequest("calculate_total_return", MsftTotalArgs, net, r)
        /\ IF "total_return" \in DOMAIN r
           THEN /\ msft_total_return' = r.total_return
                /\ pc' = "L254"
                /\ UNCHANGED <<outcome, exc>>
           ELSE /\ Uncaught("KeyError", 252)
                /\ UNCHANGED msft_total_return
    /\ UNCHANGED <<loop, aapl_price_ret, aapl_div_yield, aapl_total_return,
                   msft_price_ret, msft_div_yield, comparison_result, search_log>>

\* lines 254-259: the answer is kept whole, whatever it is
CompareReturns ==
    /\ pc = "L254"
    /\ \E net \in Net : \E r \in {tool_handler("compare_returns", CompareArgs, <<net>>)} :
        /\ ChainRequest("compare_returns", CompareArgs, net, r)
        /\ comparison_result' = r
    /\ pc' = "L261"
    /\ UNCHANGED <<loop, aapl_price_ret, aapl_div_yield, aapl_total_return,
                   msft_price_ret, msft_div_yield, msft_total_return,
                   outcome, exc, search_log>>

\* lines 261-265: what the script prints last
Report ==
    /\ pc = "L261"
    /\ pc' = "exited"
    /\ outcome' = IF "result" \in DOMAIN comparison_result
                  THEN "final_comparison" ELSE "success"
    /\ UNCHANGED <<loop, chain, exc, mcp_log, search_log>>

Next ==
    \/ Completion
    \/ DispatchCall
    \/ Gate
    \/ AaplPriceReturn
    \/ AaplDividendYield
    \/ AaplTotalReturn
    \/ MsftPriceReturn
    \/ MsftDividendYield
    \/ MsftTotalReturn
    \/ CompareReturns
    \/ Report

Spec == Init /\ [][Next]_vars

TypeOK ==
    /\ pc \in {"completion", "loop", "gate", "L224", "L229", "L234", "L239",
               "L244", "L249", "L254", "L261", "exited"}
    /\ outcome \in {"running", "no_tool_calls", "missing_data", "uncaught",
                    "final_comparison", "success"}
    /\ idx \in 0..Len(calls)
    /\ (pc = "exited") = (outcome # "running")

(***************************************************************************)
(* The calculation service on its own: any client may post to it.          *)
(***************************************************************************)
\* most requests the service is sent in one run
MaxServed == 2

TickerNames == {"AAPL", "MSFT"}
Returns == {Rat(-5, 1), Rat(1, 8), Rat(13, 2)}

CompareRequests ==
    {[stock_a_name |-> a, stock_a_return |-> x, stock_b_name |-> b, stock_b_return |-> y] :
        a \in TickerNames, b \in TickerNames, x \in Returns, y \in Returns}

InitServer ==
    /\ pc = "serving"
    /\ calls = <<>>
    /\ idx = 0
    /\ result = <<>>
    /\ slots = EmptySlots
    /\ aapl_price_ret = None /\ aapl_div_yield = None /\ aapl_total_return = None
    /\ msft_price_ret = None /\ msft_div_yield = None /\ msft_total_return = None
    /\ comparison_result = Unbound
    /\ outcome = "running"
    /\ exc = NoException
    /\ mcp_log = <<>>
    /\ search_log = <<>>

\* POST /compare
ServeCompare ==
    /\ pc = "serving"
    /\ Len(mcp_log) < MaxServed
    /\ \E data \in CompareRequests :
        mcp_log' = Append(mcp_log,
            McpEntry("client", "compare", data, "up", Server("compare", data).body))
    /\ UNCHANGED <<pc, loop, chain, outcome, exc, search_log>>

Prices == {Rat(0, 1), Rat(3, 1), Rat(100, 1)}
Dividends == {Rat(0, 1), Rat(2, 1)}

PriceReturnRequests ==
    {[initial_price |-> i, final_price |-> f] : i \in Prices, f \in Prices}
DividendYieldRequests ==
    {[dividend_total |-> d, initial_price |-> i] : d \in Dividends, i \in Prices}
TotalReturnRequests ==
    {[price_return |-> p, dividend_yield |-> y] :
        p \in {Rat(-5, 1), Rat(20, 1)}, y \in {Rat(0, 1), Rat(3, 2)}}

\* a client posts data to endpoint and is answered
Serve(endpoint, data) ==
    /\ pc = "serving"
    /\ Len(mcp_log) < MaxServed
    /\ mcp_log' = Append(mcp_log,
            McpEntry("client", endpoint, data, "up", Server(endpoint, data).body))
    /\ UNCHANGED <<pc, loop, chain, outcome, exc, search_log>>

\* POST /price-return
ServePriceReturn == \E data \in PriceReturnRequests : Serve("price-return", data)
\* POST /dividend-yield
ServeDividendYield == \E data \in DividendYieldRequests : Serve("dividend-yield", data)
\* POST /total-return
ServeTotalReturn == \E data \in TotalReturnRequests : Serve("total-return", data)

NextServer ==
    \/ ServeCompare
    \/ ServePriceReturn
    \/ ServeDividendYield
    \/ ServeTotalReturn

SpecServer == InitServer /\ [][NextServer]_vars

\* the agent's script, or the calculation service on its own
InitAll == Init \/ InitServer
NextAll == Next \/ NextServer
SpecAll == InitAll /\ [][NextAll]_vars

(***************************************************************************)
(* Properties.                                                             *)
(***************************************************************************)
\* the loop has processed every proposed call
ProcessedAll == calls # <<>> /\ idx = Len(calls) /\ pc \notin {"completion", "loop"}

\* at least one of the six roles is absent
RoleAbsent == \E k \in 1..Len(Required) : Required[k] = None

\* the requests the calculation chain has made, in order
IsChainEntry(e) == e.by = "chain"
ChainLog == SelectSeq(mcp_log, IsChainEntry)

IsMarker(r) == DOMAIN r = {"error"}

\* C1: when every proposed call has been processed and a role is absent, the
\* script can only end with the missing-data report, and the calculation
\* chain posts nothing to the calculation service.
C1_MissingDataStops ==
    (ProcessedAll /\ RoleAbsent) =>
        /\ pc \in {"gate", "exited"}
        /\ pc = "exited" => outcome = "missing_data"
        /\ ChainLog = <<>>

\* five of the six roles resolved, the script has ended
C1_Witness ==
    /\ outcome = "missing_data"
    /\ slots.msft_div = None
    /\ \A k \in 1..5 : Truthy(Required[k])
    /\ ChainLog = <<>>

\* C2: a proposed call whose name is not in the dispatch table yields an
\* error marker as the iteration's result, and the loop goes on to its next
\* step.
C2_UnknownToolIsData ==
    [][(/\ pc = "loop"
        /\ calls[idx + 1].arguments.valid
        /\ calls[idx + 1].name \notin ToolNames)
       => (/\ pc' \in {"loop", "gate"}
           /\ idx' = idx + 1
           /\ IsMarker(result'))]_vars

\* C3: the gate lets the script into the chain exactly when all six roles
\* hold a value, a value of 0 included.
C3_GateIffAllPresent ==
    (ProcessedAll /\ pc # "gate") => ((outcome # "missing_data") <=> ~RoleAbsent)

\* C4: with all six roles present and an initial price of exactly zero, the
\* script ends in a failure that is not the missing-data report and not a
\* success.
C4_ZeroInitialIsComputationFailure ==
    (/\ ProcessedAll
     /\ pc = "exited"
     /\ ~RoleAbsent
     /\ (IsZero(slots.aapl_init) \/ IsZero(slots.msft_init)))
    => outcome \notin {"missing_data", "success", "final_comparison", "no_tool_calls"}

\* C5: when a request of the chain was answered with an error marker, the
\* script does not end with a success report.
C5_ChainErrorNeverSuccess ==
    (/\ pc = "exited"
     /\ \E k \in 1..Len(ChainLog) : IsMarker(ChainLog[k].response))
    => outcome \notin {"success", "final_comparison"}

\* request f is request e with its two operands swapped
IsSwapOf(e, f) ==
    /\ f.stock_a_name = e.stock_b_name /\ f.stock_a_return = e.stock_b_return
    /\ f.stock_b_name = e.stock_a_name /\ f.stock_b_return = e.stock_a_return

\* the two compare requests i and j of the log are each other's swap, on two
\* different names
SwappedPair(i, j) ==
    /\ mcp_log[i].endpoint = "compare" /\ mcp_log[j].endpoint = "compare"
    /\ mcp_log[i].data.stock_a_name # mcp_log[i].data.stock_b_name
    /\ IsSwapOf(mcp_log[i].data, mcp_log[j].data)

\* the first operand's name is the winner in request i iff it is in request j
SameWinner(i, j) ==
    LET A == mcp_log[i].data.stock_a_name
    IN  (mcp_log[i].response.summary.winner = A)
            <=> (mcp_log[j].response.summary.winner = A)

\* C6 as stated: for all names A # B and all returns x, y, x = y included,
\* compare(A, x, B, y) names A iff compare(B, y, A, x) names A.
C6_SwapSameWinner ==
    \A i, j \in 1..Len(mcp_log) : SwappedPair(i, j) => SameWinner(i, j)

\* C6 amended: the same for all names A # B and all returns x # y.
C6_SwapSameWinnerUnequal ==
    \A i, j \in 1..Len(mcp_log) :
        (SwappedPair(i, j)
         /\ mcp_log[i].data.stock_a_return # mcp_log[i].data.stock_b_return)
        => SameWinner(i, j)

\* compare has answered a request and its swap, the second operand winning
\* the first request
C6_Witness ==
    /\ Len(mcp_log) = 2
    /\ SwappedPair(1, 2)
    /\ mcp_log[1].data.stock_a_return # mcp_log[1].data.stock_b_return
    /\ mcp_log[1].response.summary.winner = mcp_log[1].data.stock_b_name
    /\ mcp_log[2].response.summary.winner = mcp_log[2].data.stock_a_name

\* C7: a request that the network drops or that is answered with a status
\* other than 200 comes back from the dispatcher as the value {"error": ...},
\* for searches and for the calculation service; and an iteration of the loop
\* ends with an uncaught exception only when the arguments are not JSON or the
\* name is not in the dispatch table.
C7_TransportFailureIsData ==
    /\ \A k \in 1..Len(mcp_log) :
        mcp_log[k].status # 200 => IsMarker(mcp_log[k].response)
    /\ \A k \in 1..Len(search_log) :
        search_log[k].net.status # 200 => IsMarker(search_log[k].response)
    /\ (outcome = "uncaught" /\ idx < Len(calls)) =>
        (~calls[idx + 1].arguments.valid \/ calls[idx + 1].name \notin ToolNames)

\* a search was dropped, the calculation service answered one request with a
\* 500 and dropped none, and the loop has ended normally
C7_Witness ==
    /\ pc = "gate"
    /\ \E k \in 1..Len(search_log) : search_log[k].net.status = 0
    /\ \E k \in 1..Len(mcp_log) :
        mcp_log[k].status = 500 /\ IsMarker(mcp_log[k].response)

\* the iteration about to run dispatches a search call
SearchIteration ==
    /\ pc = "loop"
    /\ calls[idx + 1].arguments.valid
    /\ calls[idx + 1].name = "search_stock_data"

\* C8: an iteration that dispatches a search call with n result items sets
\* role i (A_init, A_final, B_init, B_final, A_div, B_div for i = 0..5) to
\* the extraction of item i when i < n and leaves it as it was when i >= n;
\* items of index 6 and more change no role.
C8_PositionalSlots ==
    [][SearchIteration =>
        \A i \in 0..5 :
            Required'[i + 1] =
                IF i < Len(result') THEN extract_price_or_dividend(result'[i + 1])
                ELSE Required[i + 1]]_vars

\* one search call of seven queries, every one answered with an amount
C8_Witness ==
    /\ calls = <<SearchCall(7)>> /\ idx = 1
    /\ Len(result) = 7
    /\ \A k \in 1..7 : extract_price_or_dividend(result[k]) # None
    /\ Required = <<Rat(100, 1), Rat(120, 1), Rat(200, 1), Rat(210, 1),
                    Rat(2, 1), Rat(3, 1)>>

\* C9: when the model proposes no tool call the script ends at once with the
\* no-tool-calls report: nothing is dispatched, no search and no calculation
\* request is made, the slots are untouched and the gate is not evaluated.
C9_NoCallsIsNoOp ==
    (calls = <<>> /\ pc # "completion") =>
        /\ pc = "exited"
        /\ outcome = "no_tool_calls"
        /\ exc = NoException
        /\ idx = 0 /\ result = <<>> /\ slots = EmptySlots
        /\ mcp_log = <<>> /\ search_log = <<>>

C9_Witness == calls = <<>> /\ pc = "exited" /\ outcome = "no_tool_calls"

\* the endpoints of the chain in the order of lines 224-259
ChainOrder == <<"price-return", "dividend-yield", "total-return",
                "price-return", "dividend-yield", "total-return", "compare">>

\* C10: the chain posts its requests in the fixed order price-return,
\* dividend-yield, total-return for A, the same for B, then compare; each
\* request is made only after all earlier ones were answered with their
\* value; total-return gets exactly the two values returned for its ticker,
\* and compare gets exactly the two total returns, A's as stock_a_return and
\* B's as stock_b_return.
C10_ChainOrderAndWiring ==
    LET ch == ChainLog
        n == Len(ch)
    IN  /\ n <= Len(ChainOrder)
        /\ n > 0 => (ProcessedAll /\ ~RoleAbsent)
        /\ \A k \in 1..n : ch[k].endpoint = ChainOrder[k]
        /\ \A k \in 1..(n - 1) : ~IsMarker(ch[k].response)
        /\ n >= 1 => ch[1].data = [initial_price |-> slots.aapl_init,
                                   final_price |-> slots.aapl_final]
        /\ n >= 2 => ch[2].data = [dividend_total |-> slots.aapl_div,
                                   initial_price |-> slots.aapl_init]
        /\ n >= 3 => ch[3].data = [price_return |-> ch[1].response.price_return,
                                   dividend_yield |-> ch[2].response.dividend_yield]
        /\ n >= 4 => ch[4].data = [initial_price |-> slots.msft_init,
                                   final_price |-> slots.msft_final]
        /\ n >= 5 => ch[5].data = [dividend_total |-> slots.msft_div,
                                   initial_price |-> slots.msft_init]
        /\ n >= 6 => ch[6].data = [price_return |-> ch[4].response.price_return,
                                   dividend_yield |-> ch[5].response.dividend_yield]
        /\ n >= 7 => ch[7].data =
                [stock_a_name |-> "AAPL", stock_a_return |-> ch[3].response.total_return,
                 stock_b_name |-> "MSFT", stock_b_return |-> ch[6].response.total_return]

\* the chain has run to its end on two tickers whose returns differ
C10_Witness ==
    /\ Len(ChainLog) = 7
    /\ outcome = "success"
    /\ ChainLog[1].response.price_return # ChainLog[4].response.price_return
    /\ "summary" \in DOMAIN comparison_result

\* C11: the script ends in one of the four outcomes no-op, success with
\* summary, missing-data failure, computation failure, and never by an
\* uncaught exception.
C11_EndsInOneOfFourOutcomes ==
    pc = "exited" =>
        /\ outcome \in {"no_tool_calls", "success", "final_comparison", "missing_data"}
        /\ exc = NoException

\* the compare requests of the log that were answered
AnsweredCompares ==
    {k \in 1..Len(mcp_log) : mcp_log[k].endpoint = "compare" /\ mcp_log[k].status = 200}

\* the operand with the strictly larger return is named, the second on a tie
NamesLargerOrSecond(k) ==
    LET d == mcp_log[k].data
    IN  mcp_log[k].response.summary.winner =
            IF RatGt(d.stock_a_return, d.stock_b_return)
            THEN d.stock_a_name ELSE d.stock_b_name

\* |x - y| of request k
AbsoluteDifference(k) ==
    RatAbs(RatSub(mcp_log[k].data.stock_a_return, mcp_log[k].data.stock_b_return))

\* m is a number of hundredths at most half a hundredth away from x
IsHundredthsOf(m, x) ==
    /\ 100 % m[2] = 0
    /\ ~RatGt(RatMul(Rat(200, 1), RatAbs(RatSub(m, x))), Rat(1, 1))

\* C12 as stated: compare names the operand with the strictly larger return,
\* the second operand on a tie, and reports a margin equal to the absolute
\* difference of the two returns.
C12_WinnerAndExactMargin ==
    \A k \in AnsweredCompares :
        /\ NamesLargerOrSecond(k)
        /\ mcp_log[k].response.summary.outperformed_by = AbsoluteDifference(k)

\* C12 amended: the same winner, and the margin reported is the absolute
\* difference rounded to two decimals.
C12_WinnerAndRoundedMargin ==
    \A k \in AnsweredCompares :
        /\ NamesLargerOrSecond(k)
        /\ IsHundredthsOf(mcp_log[k].response.summary.outperformed_by,
                          AbsoluteDifference(k))

\* compare has answered a tie on two names and a request whose difference
\* has more than two decimals
C12_Witness ==
    /\ Len(mcp_log) = 2
    /\ mcp_log[1].data.stock_a_name # mcp_log[1].data.stock_b_name
    /\ mcp_log[1].data.stock_a_return = mcp_log[1].data.stock_b_return
    /\ mcp_log[1].response.summary.winner = mcp_log[1].data.stock_b_name
    /\ mcp_log[2].response.summary.outperformed_by # AbsoluteDifference(2)

\* the iteration about to run hands its call to a handler of the table
Dispatchable ==
    /\ pc = "loop"
    /\ calls[idx + 1].arguments.valid
    /\ calls[idx + 1].name \in ToolNames

\* item i of the result is what the network delivered for search request k
IsPayloadOf(item, k) ==
    IF search_log'[k].net.status = 200
    THEN item = search_log'[k].net.body
    ELSE IsMarker(item)

\* C13: an iteration dispatches the next call of the model's list, once, and
\* the loop ends when every call was dispatched; a search call with queries
\* q1..qn makes exactly n search requests, for q1..qn in this order, and its
\* result has n items, item i being the payload (or error payload) delivered
\* for qi; any other call makes exactly one request to the calculation
\* service, with the call's arguments.
C13_DispatchInOrder ==
    [][Dispatchable =>
        LET c == calls[idx + 1]
            a == c.arguments.value
        IN  /\ idx' = idx + 1 /\ calls' = calls
            /\ (pc' = "gate") = (idx' = Len(calls))
            /\ IF c.name = "search_stock_data"
               THEN LET n == Len(a.query)
                        L == Len(search_log)
                    IN  /\ Len(search_log') = L + n
                        /\ SubSeq(search_log', 1, L) = search_log
                        /\ Len(result') = n
                        /\ \A i \in 1..n :
                            /\ search_log'[L + i].query = a.query[i]
                            /\ IsPayloadOf(result'[i], L + i)
                        /\ mcp_log' = mcp_log
               ELSE /\ search_log' = search_log
                    /\ Len(mcp_log') = Len(mcp_log) + 1
                    /\ SubSeq(mcp_log', 1, Len(mcp_log)) = mcp_log
                    /\ mcp_log'[Len(mcp_log')].endpoint = Endpoint(c.name)
                    /\ mcp_log'[Len(mcp_log')].data = a]_vars

\* two search calls of three and two queries were dispatched, five searches
\* were made
C13_Witness ==
    /\ pc = "gate"
    /\ Len(calls) = 2 /\ idx = 2
    /\ QueryCount(calls[1]) = 3 /\ QueryCount(calls[2]) = 2
    /\ Len(search_log) = 5
    /\ search_log[3].query = 3 /\ search_log[4].query = 1
    /\ result = <<search_log[4].response, search_log[5].response>>

\* the answer to request k of the log follows the formula of its endpoint
FollowsFormula(k) ==
    LET e == mcp_log[k]
        d == e.data
        hundred == Rat(100, 1)
    IN  CASE e.endpoint = "price-return" ->
                /\ ~IsZero(d.initial_price)
                /\ RatMul(e.response.price_return, d.initial_price) =
                        RatMul(RatSub(d.final_price, d.initial_price), hundred)
          [] e.endpoint = "dividend-yield" ->
                /\ ~IsZero(d.initial_price)
                /\ RatMul(e.response.dividend_yield, d.initial_price) =
                        RatMul(d.dividend_total, hundred)
          [] e.endpoint = "total-return" ->
                RatSub(e.response.total_return, d.price_return) = d.dividend_yield
          [] OTHER -> TRUE

\* request k is one the service can compute
Computable(k) ==
    mcp_log[k].endpoint \in {"price-return", "dividend-yield"}
        => ~IsZero(mcp_log[k].data.initial_price)

\* the observations of the end-to-end scenario
ScenarioSlots ==
    [aapl_init |-> Rat(100, 1), aapl_final |-> Rat(120, 1), msft_init |-> Rat(200, 1),
     msft_final |-> Rat(210, 1), aapl_div |-> Rat(2, 1), msft_div |-> Rat(3, 1)]

\* what the seven requests of the chain return in the scenario
ScenarioAnswers ==
    <<[price_return |-> Rat(20, 1)], [dividend_yield |-> Rat(2, 1)],
      [total_return |-> Rat(22, 1)], [price_return |-> Rat(5, 1)],
      [dividend_yield |-> Rat(3, 2)], [total_return |-> Rat(13, 2)]>>

\* C14: for initial # 0 the service answers price_return =
\* (final - initial) / initial * 100, dividend_yield = dividend_total /
\* initial * 100 and total_return = price_return + dividend_yield; and on the
\* observations 100, 120, 2 for A and 200, 210, 3 for B the chain gets 20, 2,
\* 22 for A and 5, 1.5, 6.5 for B, and compare names AAPL with margin 15.5.
C14_FormulasAndScenario ==
    /\ \A k \in 1..Len(mcp_log) :
        /\ mcp_log[k].status = 200 => FollowsFormula(k)
        /\ (mcp_log[k].net = "up" /\ Computable(k)) => mcp_log[k].status = 200
    /\ slots = ScenarioSlots =>
        \A k \in 1..Len(ChainLog) :
            ChainLog[k].status = 200 =>
                IF k <= 6 THEN ChainLog[k].response = ScenarioAnswers[k]
                ELSE /\ ChainLog[k].response.summary.winner = "AAPL"
                     /\ ChainLog[k].response.summary.outperformed_by = Rat(31, 2)

\* the scenario has run to its end
C14_Witness ==
    /\ slots = ScenarioSlots
    /\ outcome = "success"
    /\ Len(ChainLog) = 7
    /\ "summary" \in DOMAIN comparison_result
    /\ comparison_result.summary.winner = "AAPL"

(***************************************************************************)
(* extract_price_or_dividend on its own: a payload is drawn, then lines    *)
(* 209-212 extract item 0 of a one-item result into the first slot.        *)
(***************************************************************************)
MaxEntries == 2

\* organic result entries, each with the first dollar amount a reader finds
\* in its snippet (None: no snippet, or no amount in it)
EntryKinds ==
    <<[entry |-> [title |-> <<"$", "9">>],
       shown |-> None],
      [entry |-> [snippet |-> <<"n", "o", " ", "p", "r", "i", "c", "e">>],
       shown |-> None],
      [entry |-> [snippet |-> <<"p", "r", "i", "c", "e", " ", "r", "o", "s", "e", " ", "t", "o", " ", "$", "1", "2", "3", ".", "4", "5", " ", "y", "e", "s", "t", "e", "r", "d", "a", "y">>],
       shown |-> Rat(12345, 100)],
      [entry |-> [snippet |-> <<"$", "7", " ", "a", "n", "d", " ", "$", "8">>],
       shown |-> Rat(7, 1)],
      [entry |-> [snippet |-> <<"$", "1", ".", "2", "3", "4">>],
       shown |-> Rat(123, 100)],
      [entry |-> [snippet |-> <<"p", "a", "y", " ", "$">>],
       shown |-> None],
      [entry |-> [snippet |-> <<"5", " ", "n", "o", "w">>],
       shown |-> None],
      [entry |-> [snippet |-> <<"$", " ", "5">>],
       shown |-> None]>>

Entries == {EntryKinds[k].entry : k \in DOMAIN EntryKinds}

RECURSIVE EntryLists(_)
EntryLists(n) ==
    IF n = 0 THEN {<<>>}
    ELSE EntryLists(n - 1) \cup
         {Append(l, e) : l \in {m \in EntryLists(n - 1) : Len(m) = n - 1}, e \in Entries}

ExtractPayloads ==
    {[organic_results |-> l] : l \in EntryLists(MaxEntries)}
        \cup {[search_metadata |-> "Success"], [error |-> "ConnectionError"]}

InitExtract ==
    /\ pc = "extracting"
    /\ calls = <<>>
    /\ idx = 0
    /\ result \in {<<p>> : p \in ExtractPayloads}
    /\ slots = EmptySlots
    /\ aapl_price_ret = None /\ aapl_div_yield = None /\ aapl_total_return = None
    /\ msft_price_ret = None /\ msft_div_yield = None /\ msft_total_return = None
    /\ comparison_result = Unbound
    /\ outcome = "running"
    /\ exc = NoException
    /\ mcp_log = <<>>
    /\ search_log = <<>>

\* lines 209-217 on the drawn result
Extract ==
    /\ pc = "extracting"
    /\ slots' = AssignFrom(slots, result, 0)
    /\ pc' = "extracted"
    /\ UNCHANGED <<calls, idx, result, chain, outcome, exc, mcp_log, search_log>>

NextExtract == Extract

SpecExtract == InitExtract /\ [][NextExtract]_vars

\* the amount a reader finds in entry e
Shown(e) == (CHOOSE k \in {EntryKinds[j] : j \in DOMAIN EntryKinds} : k.entry = e).shown

\* the first amount shown by the entries, in their order
RECURSIVE FirstShown(_)
FirstShown(entries) ==
    IF entries = <<>> THEN None
    ELSE IF Shown(Head(entries)) # None THEN Shown(Head(entries))
    ELSE FirstShown(Tail(entries))

\* C15: the extraction of a payload is the first dollar amount of its
\* entries' snippets taken in the order given, entries without a snippet
\* skipped; it is absent for zero organic results, for no organic_results
\* field, and when no snippet holds a dollar amount.
C15_FirstAmountInOrder ==
    pc = "extracted" =>
        slots.aapl_init =
            IF "organic_results" \in DOMAIN result[1]
            THEN FirstShown(result[1].organic_results)
            ELSE None

\* a titled entry with an amount but no snippet, then the snippet of the
\* worked example
C15_Witness ==
    /\ pc = "extracted"
    /\ "organic_results" \in DOMAIN result[1]
    /\ result[1].organic_results = <<EntryKinds[1].entry, EntryKinds[3].entry>>
    /\ slots.aapl_init = Rat(12345, 100)

\* the queries of the search calls among the first n proposed calls
RECURSIVE QueriesOf(_)
QueriesOf(n) == IF n = 0 THEN 0 ELSE QueriesOf(n - 1) + QueryCount(calls[n])

\* the arithmetic calls among the first n proposed calls
RECURSIVE ArithmeticOf(_)
ArithmeticOf(n) ==
    IF n = 0 THEN 0
    ELSE ArithmeticOf(n - 1) +
         (IF /\ calls[n].arguments.valid
             /\ calls[n].name \in ToolNames \ {"search_stock_data"}
          THEN 1 ELSE 0)

IsLoopEntry(e) == e.by = "loop"

\* the steps of the calculation chain that have run
ChainStepsRun ==
    CASE pc = "L229" -> 1
      [] pc = "L234" -> 2
      [] pc = "L239" -> 3
      [] pc = "L244" -> 4
      [] pc = "L249" -> 5
      [] pc = "L254" -> 6
      [] pc = "L261" -> 7
      [] pc = "exited" /\ outcome \in {"success", "final_comparison"} -> 7
      [] pc = "exited" /\ outcome = "uncaught" /\ exc.line >= 224 ->
            (exc.line - 222) \div 5
      [] OTHER -> 0

\* C16: nothing is retried: the search requests made are exactly one per
\* query of each dispatched search call, each dispatched arithmetic call
\* posts once, and each of the seven chain steps that has run posted one
\* request to the calculation service, failed or not, so never more than
\* seven.
C16_NoRetry ==
    /\ Len(search_log) = QueriesOf(idx)
    /\ Len(SelectSeq(mcp_log, IsLoopEntry)) = ArithmeticOf(idx)
    /\ Len(ChainLog) = ChainStepsRun
    /\ Len(ChainLog) <= 7

\* six searches, then a chain whose fifth request failed and ended it
C16_Witness ==
    /\ pc = "exited"
    /\ Len(search_log) = 6
    /\ Len(ChainLog) = 5
    /\ ChainLog[5].net = "down"
    /\ ChainLog[5].status = 0
    /\ exc = Exception("KeyError", 247)

\* the last dispatched call that is a search call with more than i items,
\* 0 if there is none
LastCovering(i) ==
    LET covering == {k \in 1..idx : QueryCount(calls[k]) > i}
    IN  IF covering = {} THEN 0
        ELSE CHOOSE k \in covering : \A j \in covering : j <= k

\* item i of the result of dispatched search call k
ItemOf(k, i) == search_log[QueriesOf(k - 1) + i + 1].response

\* C17: during the loop and when it has ended, slot i (0..5) holds the extraction of item i of the last dispatched
\* search call that had more than i items, be it a value or absent (so a
\* value an earlier call put there is not kept), and is absent when there
\* is no such call.
C17_LastSearchCallDecides ==
    pc \in {"loop", "gate"} =>
        \A i \in 0..5 :
            LET k == LastCovering(i)
            IN  Required[i + 1] =
                    IF k = 0 THEN None ELSE extract_price_or_dividend(ItemOf(k, i))

\* two search calls were processed; item 0 of the first held an amount, item
\* 0 of the second did not, and the first slot is absent
C17_Witness ==
    /\ pc = "gate"
    /\ Len(calls) = 2
    /\ QueryCount(calls[1]) > 0
    /\ QueryCount(calls[2]) > 0
    /\ extract_price_or_dividend(ItemOf(1, 0)) # None
    /\ extract_price_or_dividend(ItemOf(2, 0)) = None
    /\ slots.aapl_init = None

\* the search request whose answer is item i of dispatched search call k
RequestOf(k, i) == search_log[QueriesOf(k - 1) + i + 1]

\* the search that decides slot i was dropped or refused
DecidingSearchFailed(i) ==
    /\ LastCovering(i) # 0
    /\ RequestOf(LastCovering(i), i).net.status # 200

\* C18: a search that fails in transport is answered with an error payload
\* that has no organic results and extracts to absent; when it is one of the
\* first six searches of the call that decides its slot, the slot is absent,
\* and once the proposed calls are processed the script can only end with
\* the missing-data report, the chain posting nothing.  The failed search
\* raises nothing: its iteration completes, and the loop stops early only at
\* a call whose arguments are not JSON or whose name is unknown.
C18_SearchFailureIsMissingData ==
    /\ \A k \in 1..Len(search_log) :
        search_log[k].net.status # 200 =>
            /\ IsMarker(search_log[k].response)
            /\ "organic_results" \notin DOMAIN search_log[k].response
            /\ extract_price_or_dividend(search_log[k].response) = None
    /\ \A i \in 0..5 :
        DecidingSearchFailed(i) =>
            /\ Required[i + 1] = None
            /\ ProcessedAll =>
                /\ pc \in {"gate", "exited"}
                /\ pc = "exited" => outcome = "missing_data"
                /\ ChainLog = <<>>
    /\ Len(search_log) = QueriesOf(idx)
    /\ (outcome = "uncaught" /\ ChainLog = <<>>) =>
        /\ idx < Len(calls)
        /\ exc.line \in {137, 203}
        /\ QueryCount(calls[idx + 1]) = 0

\* the first search of the only search call failed, the call after it was
\* processed, and the script ended with the missing-data report
C18_Witness ==
    /\ pc = "exited"
    /\ outcome = "missing_data"
    /\ Len(calls) = 2
    /\ idx = 2
    /\ QueryCount(calls[1]) > 0
    /\ QueryCount(calls[2]) = 0
    /\ search_log[1].net.status = 0
    /\ DecidingSearchFailed(0)
    /\ slots.aapl_init = None

\* the iteration about to run dispatches a call to an arithmetic tool
ArithmeticIteration ==
    /\ Dispatchable
    /\ calls[idx + 1].name # "search_stock_data"

\* what request k of the chain is given: slot values, and answers to earlier
\* requests of the chain
ChainInput(k) ==
    CASE k = 1 -> [initial_price |-> slots.aapl_init, final_price |-> slots.aapl_final]
      [] k = 2 -> [dividend_total |-> slots.aapl_div, initial_price |-> slots.aapl_init]
      [] k = 3 -> [price_return |-> ChainLog[1].response.price_return,
                   dividend_yield |-> ChainLog[2].response.dividend_yield]
      [] k = 4 -> [initial_price |-> slots.msft_init, final_price |-> slots.msft_final]
      [] k = 5 -> [dividend_total |-> slots.msft_div, initial_price |-> slots.msft_init]
      [] k = 6 -> [price_return |-> ChainLog[4].response.price_return,
                   dividend_yield |-> ChainLog[5].response.dividend_yield]
      [] k = 7 -> [stock_a_name |-> "AAPL",
                   stock_a_return |-> ChainLog[3].response.total_return,
                   stock_b_name |-> "MSFT",
                   stock_b_return |-> ChainLog[6].response.total_return]

ChainInputsFromSlots == \A k \in 1..Len(ChainLog) : ChainLog[k].data = ChainInput(k)

\* C19: an iteration that dispatches a proposed call to an arithmetic tool
\* leaves the six slots as they were; the slots change only in an iteration
\* that dispatches a search call; and every request of the calculation chain
\* is given slot values and answers to the chain's own earlier requests,
\* never the result of a call the model proposed.
C19_ArithmeticCallsLeaveSlots ==
    [][/\ ArithmeticIteration => slots' = slots
       /\ slots' # slots => SearchIteration
       /\ ChainInputsFromSlots']_vars

\* the model proposed a dividend-yield call after the searches; its result
\* differs from the yield the chain computed for B, and the chain ran to the
\* end on the slots
C19_Witness ==
    /\ pc = "exited"
    /\ outcome = "success"
    /\ Len(calls) = 2
    /\ calls[2].name = "calculate_dividend_yield"
    /\ "dividend_yield" \in DOMAIN result
    /\ result.dividend_yield # msft_div_yield
    /\ slots = ScenarioSlots
    /\ Len(ChainLog) = 7

====
